---- MODULE Spec2Model ----
(***************************************************************************)
(* Model of commit_gpt.cli.main (src/src/commit_gpt/cli.py): one run of    *)
(* the command, from the parsed flags to the exit status.  Text is a       *)
(* sequence of one-character strings; the collaborators that live in       *)
(* other modules of the package (gitio, redact, llm, formatters, risk)     *)
(* are either modelled from their contract or return a value drawn from    *)
(* a small set, and each may fail by raising.                              *)
(***************************************************************************)
EXTENDS Integers, Sequences, FiniteSets, TLC

\* ------------------------------------------------------------------ bounds
MaxDiffLen == 1

\* ------------------------------------------------------------ text helpers
None == <<"<None>">>

DiffChars == {"a", " ", "K"}

Whitespace == {" ", "\n", "\t"}

Upper == <<"A","B","C","D","E","F","G","H","I","J","K","L","M",
           "N","O","P","Q","R","S","T","U","V","W","X","Y","Z">>

LowerOf == <<"a","b","c","d","e","f","g","h","i","j","k","l","m",
             "n","o","p","q","r","s","t","u","v","w","x","y","z">>

\* str.lower() on one character
lower_char(c) ==
    IF \E i \in 1..Len(Upper) : Upper[i] = c
    THEN LowerOf[CHOOSE i \in 1..Len(Upper) : Upper[i] = c]
    ELSE c

\* str.lower()
lower(s) == [i \in 1..Len(s) |-> lower_char(s[i])]

RECURSIVE lstrip(_)
lstrip(s) ==
    IF s = <<>> THEN <<>>
    ELSE IF Head(s) \in Whitespace THEN lstrip(Tail(s)) ELSE s

RECURSIVE rstrip(_)
rstrip(s) ==
    IF s = <<>> THEN <<>>
    ELSE IF s[Len(s)] \in Whitespace THEN rstrip(SubSeq(s, 1, Len(s) - 1)) ELSE s

\* str.strip()
strip(s) == rstrip(lstrip(s))

\* the Python operator "needle in hay" on strings
contains(hay, needle) ==
    \E i \in 0..(Len(hay) - Len(needle)) :
        SubSeq(hay, i + 1, i + Len(needle)) = needle

\* truthiness of an Optional[str]
truthy(x) == x # None /\ x # <<>>

\* what an f-string interpolation renders
fstr(x) == IF x = None THEN <<"None">> ELSE x

\* all texts over DiffChars of length at most MaxDiffLen
RECURSIVE TextsOfLen(_)
TextsOfLen(n) ==
    IF n = 0 THEN {<<>>}
    ELSE {Append(t, c) : t \in TextsOfLen(n - 1), c \in DiffChars}

Diffs == UNION {TextsOfLen(n) : n \in 0..MaxDiffLen}

\* --------------------------------------------------- collaborator contracts
\* redact.scrub: every secret character is replaced by the placeholder
scrub(d) == [i \in 1..Len(d) |-> IF d[i] = "K" THEN "#" ELSE d[i]]

SubjectLimit == 8

BodyLineLimit == 4

RECURSIVE reflow(_)
reflow(b) ==
    IF Len(b) <= BodyLineLimit THEN b
    ELSE SubSeq(b, 1, BodyLineLimit) \o <<"\n">>
         \o reflow(SubSeq(b, BodyLineLimit + 1, Len(b)))

\* formatters.enforce_limits on a (subject, body) pair
enforce_limits(pair) ==
    << IF Len(pair[1]) <= SubjectLimit THEN pair[1]
       ELSE SubSeq(pair[1], 1, SubjectLimit),
       IF pair[2] = None THEN None ELSE reflow(pair[2]) >>

\* results risk.assess can return, in hundredths
RiskScores == {69, 70, 85}

\* results redact.estimate_tokens can return
TokenEstimates == {8000, 8001}

\* CommitOutput values llm.summarize_diff can return
LLMOutputs ==
    { [subject |-> <<"f","i","x"," ","p","a","r","s","e","r">>,
       body |-> <<"l","o","n","g"," ","b","o","d","y">>,
       pr_title |-> <<"T">>, pr_summary |-> <<"S">>],
      [subject |-> <<"U","p","d","a","t","e"," ","f","i","l","e","s">>,
       body |-> None, pr_title |-> None, pr_summary |-> None],
      [subject |-> <<"p","a","d">>,
       body |-> <<>>, pr_title |-> <<"T">>, pr_summary |-> None],
      [subject |-> <<" ">>,
       body |-> None, pr_title |-> None, pr_summary |-> None],
      [subject |-> <<>>,
       body |-> None, pr_title |-> None, pr_summary |-> None] }

\* (subject, body) pairs formatter.offline can return: a subject, no body
OfflineOutputs(style) ==
    IF style = "casual"
    THEN { << <<"t","w","e","a","k","s">>, None >>,
           << <<"C","h","a","n","g","e"," ","c","l","i">>, None >> }
    ELSE { << <<"f","i","x",":"," ","c","l","i">>, None >>,
           << <<"f","e","a","t",":"," ","a","d","d"," ","x">>, None >> }

\* ------------------------------------------------------ program constants
RiskThreshold == 70

very_large_threshold == 8000

poor_message_indicators ==
    { <<"a","d","d"," ",".","e","n","v">>,
      <<"u","p","d","a","t","e"," ","f","i","l","e","s">>,
      <<"m","o","d","i","f","y">>,
      <<"a","d","d">>,
      <<"u","p","d","a","t","e">>,
      <<"c","h","a","n","g","e">> }

has_poor_message(subj) ==
    \E indicator \in poor_message_indicators : contains(lower(subj), indicator)

is_very_large(tokens) == tokens > very_large_threshold

\* -------------------------------------------------------------------- state
VARIABLES
    opt,              \* the parsed command-line flags
    pc,               \* position of main in the pipeline
    raw_diff,         \* the text the diff command returned
    diff,             \* the local variable diff
    risk_score,       \* risk.score, -1 before the assessment
    ctx_diff,         \* ctx["diff"]
    have,             \* what have_llm() returned
    use_llm,
    estimated_tokens,
    is_too_large,
    gen,              \* the (subject, body) pair as the generator returned it
    subject, body, pr_title, pr_sum,
    out,              \* stdout, one entry per echo
    err,              \* stderr, one entry per echo
    calls,            \* collaborators called so far, with the text passed
    trace,            \* pipeline stages executed so far, in order
    exc,              \* the exception travelling out of the try block
    commit_msg,       \* message handed to git commit, None if not invoked
    commit_rc,        \* return code of git commit, -1 if it did not return
    exit_code         \* exit status of the process, -1 while running

vars == << opt, pc, raw_diff, diff, risk_score, ctx_diff, have, use_llm,
           estimated_tokens, is_too_large, gen, subject, body, pr_title,
           pr_sum, out, err, calls, trace, exc, commit_msg, commit_rc,
           exit_code >>

Styles == {"conventional", "casual"}

Options ==
    [ write : BOOLEAN, style : Styles, pr : BOOLEAN, explain : BOOLEAN,
      risk_check : BOOLEAN, range : BOOLEAN, no_llm : BOOLEAN,
      suggest_groups : BOOLEAN, force_write : BOOLEAN ]

NoExc == [cls |-> "none", code |-> 0]

Call(fn, arg) == [fn |-> fn, arg |-> arg]

Init ==
    /\ opt \in Options
    /\ pc = "FetchDiff"
    /\ raw_diff = None
    /\ diff = None
    /\ risk_score = -1
    /\ ctx_diff = None
    /\ have = FALSE
    /\ use_llm = FALSE
    /\ estimated_tokens = 0
    /\ is_too_large = FALSE
    /\ gen = << None, None >>
    /\ subject = None
    /\ body = None
    /\ pr_title = None
    /\ pr_sum = None
    /\ out = <<>>
    /\ err = <<>>
    /\ calls = <<>>
    /\ trace = <<>>
    /\ exc = NoExc
    /\ commit_msg = None
    /\ commit_rc = -1
    /\ exit_code = -1

\* ------------------------------------------------------ exception handling
\* direct base class of each exception class that can be raised in main
BaseOf ==
    [ Exit |-> "RuntimeError", RuntimeError |-> "Exception",
      CalledProcessError |-> "SubprocessError",
      SubprocessError |-> "Exception", OSError |-> "Exception",
      Exception |-> "BaseException" ]

RECURSIVE isinstance(_, _)
isinstance(cls, base) ==
    IF cls = base THEN TRUE
    ELSE IF cls \in DOMAIN BaseOf THEN isinstance(BaseOf[cls], base)
    ELSE FALSE

\* raise inside the try block: control moves to the except clauses
Raise(cls, code) ==
    /\ exc' = [cls |-> cls, code |-> code]
    /\ pc' = "except"

\* str(e) as the handlers print it
ErrorText(e) ==
    IF e.cls = "Exit" THEN ToString(e.code) ELSE e.cls

\* the except clauses of main, lines 214-219: each handler echoes and raises
\* Exit(1), which leaves main and becomes the exit status
Handler ==
    /\ pc = "except"
    /\ trace' = Append(trace, "Handler")
    /\ IF isinstance(exc.cls, "CalledProcessError")
       THEN /\ err' = Append(err, "Git command failed: " \o ErrorText(exc))
            /\ exit_code' = 1
       ELSE IF isinstance(exc.cls, "Exception")
       THEN /\ err' = Append(err, "Error: " \o ErrorText(exc))
            /\ exit_code' = 1
       ELSE /\ err' = err
            /\ exit_code' = exc.code
    /\ pc' = "done"
    /\ UNCHANGED << opt, raw_diff, diff, risk_score, ctx_diff, have, use_llm,
                    estimated_tokens, is_too_large, gen, subject, body,
                    pr_title, pr_sum, out, calls, exc, commit_msg,
                    commit_rc >>

\* ---------------------------------------------------------------- pipeline
\* variant of NoDiff that forgets strip(): only the empty text counts
NoDiff_OnlyEmpty(d) == d = <<>>

\* line 96: not diff.strip()
NoDiff(d) == strip(d) = <<>>

\* lines 86-98: obtain the diff, stop when there is nothing to summarize
FetchDiff ==
    /\ pc = "FetchDiff"
    /\ trace' = Append(trace, "FetchDiff")
    /\ LET fn == IF opt.range THEN "git diff" ELSE "staged_diff" IN
       /\ calls' = Append(calls, Call(fn, None))
       /\ \/ \E d \in Diffs :
               /\ raw_diff' = d
               /\ diff' = d
               /\ IF NoDiff(d)
                  THEN /\ err' = Append(err, "No diff to summarize.")
                       /\ Raise("Exit", 1)
                  ELSE /\ err' = err
                       /\ pc' = "AssessRisk"
                       /\ exc' = exc
          \/ /\ Raise("CalledProcessError", 1)
             /\ UNCHANGED << raw_diff, diff, err >>
    /\ UNCHANGED << opt, risk_score, ctx_diff, have, use_llm,
                    estimated_tokens, is_too_large, gen, subject, body,
                    pr_title, pr_sum, out, commit_msg, commit_rc,
                    exit_code >>

\* line 102: risk_check and risk.score >= 0.7
RiskAbove(check, score) == check /\ score >= RiskThreshold

\* lines 100-104: risk assessment on the diff as fetched, and the risk gate
AssessRisk ==
    /\ pc = "AssessRisk"
    /\ trace' = Append(trace, "AssessRisk")
    /\ calls' = Append(calls, Call("assess", diff))
    /\ \E score \in RiskScores :
         /\ risk_score' = score
         /\ IF RiskAbove(opt.risk_check, score)
            THEN /\ err' = Append(err, "risk.report")
                 /\ Raise("Exit", 2)
            ELSE /\ err' = err
                 /\ pc' = "BuildContext"
                 /\ exc' = exc
    /\ UNCHANGED << opt, raw_diff, diff, ctx_diff, have, use_llm,
                    estimated_tokens, is_too_large, gen, subject, body,
                    pr_title, pr_sum, out, commit_msg, commit_rc,
                    exit_code >>

\* variant of BuildCtxDiff that puts the fetched diff into the context
BuildCtxDiff_Raw(d) == d

\* line 111: "diff": scrub(diff)
BuildCtxDiff(d) == scrub(d)

\* lines 106-113: repository metadata through git, and the redacted diff
BuildContext ==
    /\ pc = "BuildContext"
    /\ trace' = Append(trace, "BuildContext")
    /\ \/ /\ calls' = calls \o << Call("repo_name", None),
                                  Call("current_branch", None),
                                  Call("recent_subjects", None),
                                  Call("scrub", diff) >>
          /\ ctx_diff' = BuildCtxDiff(diff)
          /\ pc' = "ClassifySize"
          /\ exc' = exc
       \/ /\ calls' = Append(calls, Call("repo_name", None))
          /\ Raise("CalledProcessError", 1)
          /\ ctx_diff' = ctx_diff
    /\ UNCHANGED << opt, raw_diff, diff, risk_score, have, use_llm,
                    estimated_tokens, is_too_large, gen, subject, body,
                    pr_title, pr_sum, out, err, commit_msg, commit_rc,
                    exit_code >>

\* variant of UseLLM without the size check of lines 128-132
UseLLM_NoSizeCheck(h, no_llm, big) == h /\ ~no_llm

\* lines 116 and 128-132: use_llm after the size check
UseLLM(h, no_llm, big) ==
    IF big /\ ~no_llm THEN FALSE ELSE h /\ ~no_llm

\* lines 115-132: choose the generator; diff now names the redacted text
ClassifySize ==
    /\ pc = "ClassifySize"
    /\ trace' = Append(trace, "ClassifySize")
    /\ diff' = ctx_diff
    /\ \E h \in BOOLEAN, t \in TokenEstimates, big \in BOOLEAN :
         /\ have' = h
         /\ estimated_tokens' = t
         /\ is_too_large' = big
         /\ use_llm' = UseLLM(h, opt.no_llm, big)
         /\ err' = IF big /\ ~opt.no_llm /\ opt.explain
                   THEN err \o << "[explain] Large diff detected",
                                  "[explain] Use '--suggest-groups'" >>
                   ELSE err
    /\ calls' = calls \o << Call("have_llm", None),
                            Call("estimate_tokens", ctx_diff),
                            Call("is_diff_too_large", ctx_diff) >>
    /\ pc' = "Generate"
    /\ UNCHANGED << opt, raw_diff, risk_score, ctx_diff, gen, subject, body,
                    pr_title, pr_sum, out, exc, commit_msg, commit_rc,
                    exit_code >>

\* lines 134-142: the generation service, or the offline formatter followed
\* by enforce_limits
Generate ==
    /\ pc = "Generate"
    /\ trace' = Append(trace, "Generate")
    /\ IF use_llm
       THEN /\ calls' = Append(calls, Call("summarize_diff", ctx_diff))
            /\ \/ \E o \in LLMOutputs :
                    /\ gen' = << o.subject, o.body >>
                    /\ subject' = o.subject
                    /\ body' = o.body
                    /\ pr_title' = o.pr_title
                    /\ pr_sum' = o.pr_summary
                    /\ err' = IF opt.explain
                              THEN Append(err, "[explain] cost :: rationale")
                              ELSE err
                    /\ pc' = "GroupSuggest"
                    /\ exc' = exc
               \/ /\ Raise("Exception", 1)
                  /\ UNCHANGED << gen, subject, body, pr_title, pr_sum, err >>
       ELSE /\ \/ \E raw \in OfflineOutputs(opt.style) :
                    /\ calls' = calls \o << Call("offline", ctx_diff),
                                            Call("enforce_limits", None) >>
                    /\ gen' = raw
                    /\ subject' = enforce_limits(raw)[1]
                    /\ body' = enforce_limits(raw)[2]
                    /\ pr_title' = None
                    /\ pr_sum' = None
                    /\ pc' = "GroupSuggest"
                    /\ exc' = exc
               \/ /\ calls' = Append(calls, Call("offline", ctx_diff))
                  /\ Raise("Exception", 1)
                  /\ UNCHANGED << gen, subject, body, pr_title, pr_sum >>
            /\ err' = err
    /\ UNCHANGED << opt, raw_diff, diff, risk_score, ctx_diff, have, use_llm,
                    estimated_tokens, is_too_large, out, commit_msg,
                    commit_rc, exit_code >>

MaxGroups == 2

\* lines 151-158: three lines on stderr for each suggested group
RECURSIVE GroupLines(_)
GroupLines(n) ==
    IF n = 0 THEN <<>>
    ELSE GroupLines(n - 1) \o << "Group " \o ToString(n), "  Files:", "" >>

\* variant of GroupBranch that reports groups for a diff of any size
GroupBranch_AnySize(suggest, big) == suggest

\* line 145: suggest_groups and is_too_large
GroupBranch(suggest, big) == suggest /\ big

\* lines 144-169: advisory report for a large diff, then return
GroupSuggest ==
    /\ pc = "GroupSuggest"
    /\ trace' = Append(trace, "GroupSuggest")
    /\ IF GroupBranch(opt.suggest_groups, is_too_large)
       THEN /\ calls' = Append(calls, Call("suggest_commit_groups", diff))
            /\ \E n \in 1..MaxGroups :
                 err' = err \o << "[INFO] Large diff detected", "" >>
                            \o GroupLines(n)
                            \o << "[HELP] To commit each group separately:",
                                  "  1. git reset HEAD~",
                                  "  2. Stage files for each group",
                                  "  3. Run commit-gpt for each group",
                                  "",
                                  "[TIP] Large commits like this",
                                  "      and can hide important changes.",
                                  "      as you work" >>
            /\ pc' = "done"
            /\ exit_code' = 0
       ELSE /\ pc' = "ValidateSubject"
            /\ UNCHANGED << calls, err, exit_code >>
    /\ UNCHANGED << opt, raw_diff, diff, risk_score, ctx_diff, have, use_llm,
                    estimated_tokens, is_too_large, gen, subject, body,
                    pr_title, pr_sum, out, exc, commit_msg, commit_rc >>

\* variant of EmptySubject that forgets strip()
EmptySubject_NoStrip(s) == ~truthy(s)

\* line 172: not subject or not subject.strip()
EmptySubject(s) == ~truthy(s) \/ strip(s) = <<>>

\* lines 171-174
ValidateSubject ==
    /\ pc = "ValidateSubject"
    /\ trace' = Append(trace, "ValidateSubject")
    /\ IF EmptySubject(subject)
       THEN /\ err' = Append(err, "Error: No commit subject generated")
            /\ Raise("Exit", 1)
       ELSE /\ err' = err
            /\ pc' = "PoorMessageGate"
            /\ exc' = exc
    /\ UNCHANGED << opt, raw_diff, diff, risk_score, ctx_diff, have, use_llm,
                    estimated_tokens, is_too_large, gen, subject, body,
                    pr_title, pr_sum, out, calls, commit_msg, commit_rc,
                    exit_code >>

\* variant of RefuseWrite that ignores --force-write
RefuseWrite_IgnoresForce(tokens, subj, write, force_write) ==
    is_very_large(tokens) /\ has_poor_message(subj) /\ write

\* line 190: is_very_large and has_poor_message and write and not force_write
RefuseWrite(tokens, subj, write, force_write) ==
    is_very_large(tokens) /\ has_poor_message(subj) /\ write /\ ~force_write

\* lines 176-200
PoorMessageGate ==
    /\ pc = "PoorMessageGate"
    /\ trace' = Append(trace, "PoorMessageGate")
    /\ IF RefuseWrite(estimated_tokens, subject, opt.write, opt.force_write)
       THEN /\ err' = err \o << "[WARNING] Refusing to write commit",
                                "",
                                "The generated message is too generic",
                                "",
                                "[HELP] Recommended actions:",
                                "  1. Use --suggest-groups",
                                "  2. Use --explain",
                                "  3. Use --force-write",
                                "" >>
            /\ Raise("Exit", 1)
       ELSE /\ err' = err
            /\ pc' = "Emit"
            /\ exc' = exc
    /\ UNCHANGED << opt, raw_diff, diff, risk_score, ctx_diff, have, use_llm,
                    estimated_tokens, is_too_large, gen, subject, body,
                    pr_title, pr_sum, out, calls, commit_msg, commit_rc,
                    exit_code >>

\* variant of PrintPR that does not look at the title
PrintPR_NoTitleCheck(pr, title) == pr

\* line 206: pr and pr_title
PrintPR(pr, title) == pr /\ truthy(title)

\* line 207: the PR block as one echo
PRBlock(title, summary) ==
    << "\nPR_TITLE: " >> \o fstr(title) \o << "\nPR_SUMMARY:\n" >>
    \o fstr(summary)

\* lines 202-207: what Emit writes to stdout
Rendered(subj, bdy, pr, title, summary) ==
    << subj >>
    \o (IF truthy(bdy) THEN << << "\n" >> \o bdy >> ELSE <<>>)
    \o (IF PrintPR(pr, title) THEN << PRBlock(title, summary) >> ELSE <<>>)

Emit ==
    /\ pc = "Emit"
    /\ trace' = Append(trace, "Emit")
    /\ out' = out \o Rendered(subject, body, opt.pr, pr_title, pr_sum)
    /\ pc' = "Write"
    /\ UNCHANGED << opt, raw_diff, diff, risk_score, ctx_diff, have, use_llm,
                    estimated_tokens, is_too_large, gen, subject, body,
                    pr_title, pr_sum, err, calls, exc, commit_msg, commit_rc,
                    exit_code >>

\* variant of ShouldWrite that commits without --write
ShouldWrite_Always(write) == TRUE

\* line 210: if write
ShouldWrite(write) == write

\* line 211: the commit message
Message(subj, bdy) ==
    subj \o (IF truthy(bdy) THEN << "\n\n" >> \o bdy ELSE <<>>)

\* lines 209-212: git commit with check=False, then main returns; the
\* command may return any status, or fail to start
Write ==
    /\ pc = "Write"
    /\ trace' = Append(trace, "Write")
    /\ IF ShouldWrite(opt.write)
       THEN /\ calls' = Append(calls, Call("git commit", Message(subject, body)))
            /\ commit_msg' = Message(subject, body)
            /\ \/ \E rc \in {0, 1} :
                    /\ commit_rc' = rc
                    /\ pc' = "done"
                    /\ exit_code' = 0
                    /\ exc' = exc
               \/ /\ Raise("OSError", 1)
                  /\ UNCHANGED << commit_rc, exit_code >>
       ELSE /\ pc' = "done"
            /\ exit_code' = 0
            /\ UNCHANGED << calls, commit_msg, commit_rc, exc >>
    /\ UNCHANGED << opt, raw_diff, diff, risk_score, ctx_diff, have, use_llm,
                    estimated_tokens, is_too_large, gen, subject, body,
                    pr_title, pr_sum, out, err >>

Next ==
    \/ FetchDiff
    \/ AssessRisk
    \/ BuildContext
    \/ ClassifySize
    \/ Generate
    \/ GroupSuggest
    \/ ValidateSubject
    \/ PoorMessageGate
    \/ Emit
    \/ Write
    \/ Handler

Spec == Init /\ [][Next]_vars

\* the run is over
Done == pc = "done"

TypeOK ==
    /\ opt \in Options
    /\ pc \in {"FetchDiff", "AssessRisk", "BuildContext", "ClassifySize",
               "Generate", "GroupSuggest", "ValidateSubject",
               "PoorMessageGate", "Emit", "Write", "except", "done"}
    /\ exit_code \in {-1, 0, 1, 2}
    /\ Done <=> exit_code # -1

\* ------------------------------------------------------------------ claims
Called(fn) == \E i \in DOMAIN calls : calls[i].fn = fn

CountCalls(fn) == Cardinality({i \in DOMAIN calls : calls[i].fn = fn})

Ran(stage) == \E i \in DOMAIN trace : trace[i] = stage

Blank(s) == \A i \in DOMAIN s : s[i] \in Whitespace

Printed(line) == \E i \in DOMAIN err : err[i] = line

\* C1: with --risk-check, a non-empty diff and a score of at least 0.7 the
\* run prints the risk report on stderr and ends with exit status 2.
C1_RiskExitIsTwo ==
    (Done /\ opt.risk_check /\ raw_diff # None /\ ~Blank(raw_diff)
          /\ risk_score >= 70)
    => (exit_code = 2 /\ Printed("risk.report"))

\* C2: at the poor-message gate with more than 8000 estimated tokens, a
\* subject containing a poor-message indicator and --write: without
\* --force-write nothing is printed, git commit is never invoked and the run
\* ends with status 1; with --force-write the subject is emitted and git
\* commit is invoked.
C2_PoorMessageGate ==
    (Ran("PoorMessageGate") /\ estimated_tokens > 8000
        /\ has_poor_message(subject) /\ opt.write)
    => IF ~opt.force_write
       THEN /\ out = <<>>
            /\ ~Called("git commit")
            /\ commit_msg = None
            /\ Done => exit_code = 1
       ELSE Done => (out # <<>> /\ out[1] = subject /\ Called("git commit"))

C2_Witness ==
    /\ Done
    /\ Ran("PoorMessageGate")
    /\ estimated_tokens > 8000
    /\ has_poor_message(subject)
    /\ opt.write
    /\ ~opt.force_write
    /\ exit_code = 1
    /\ Printed("[WARNING] Refusing to write commit")

\* C3: when the redacted diff is too large summarize_diff is never called,
\* the message comes from the offline formatter and, with --explain and
\* without --no-llm, the large-diff line is on stderr; summarize_diff is
\* called only if have_llm() holds, --no-llm is unset and the diff is not
\* too large.
C3_LargeDiffSkipsLLM ==
    /\ (Ran("ClassifySize") /\ is_too_large)
       => /\ ~Called("summarize_diff")
          /\ (opt.explain /\ ~opt.no_llm)
             => Printed("[explain] Large diff detected")
          /\ (Ran("Generate") /\ exc = NoExc)
             => /\ Called("offline")
                /\ gen \in OfflineOutputs(opt.style)
                /\ << subject, body >> = enforce_limits(gen)
    /\ Called("summarize_diff")
       => (have /\ ~opt.no_llm /\ ~is_too_large)

C3_Witness ==
    /\ Done
    /\ is_too_large
    /\ have
    /\ ~opt.no_llm
    /\ opt.explain
    /\ opt.force_write
    /\ Called("offline")
    /\ exit_code = 0

\* C4: when the generation service is called the redactor has already been
\* applied to the fetched diff, the service receives the redactor's output,
\* and the fetched diff itself goes only to the redactor and to the risk
\* assessor.
C4_RedactBeforeService ==
    /\ \A i \in DOMAIN calls :
         calls[i].fn = "summarize_diff"
         => /\ \E j \in 1..(i - 1) :
                 calls[j].fn = "scrub" /\ calls[j].arg = raw_diff
            /\ calls[i].arg = scrub(raw_diff)
    /\ \A i \in DOMAIN calls :
         (raw_diff # scrub(raw_diff) /\ calls[i].arg = raw_diff)
         => calls[i].fn \in {"assess", "scrub"}

C4_Witness ==
    /\ Called("summarize_diff")
    /\ raw_diff # scrub(raw_diff)
    /\ Done
    /\ exit_code = 0

\* C5: git commit is invoked at most once, only with --write, only after a
\* non-empty diff, the risk gate, the subject check and the poor-message
\* gate were passed and the subject was printed, and no stage runs after it.
C5_CommitOnceAndLast ==
    /\ CountCalls("git commit") <= 1
    /\ Called("git commit")
       => /\ opt.write
          /\ ~Blank(raw_diff)
          /\ Ran("AssessRisk") /\ ~(opt.risk_check /\ risk_score >= 70)
          /\ Ran("ValidateSubject") /\ subject # None /\ ~Blank(subject)
          /\ Ran("PoorMessageGate")
          /\ ~(estimated_tokens > 8000 /\ has_poor_message(subject)
               /\ ~opt.force_write)
          /\ Ran("Emit") /\ out # <<>> /\ out[1] = subject
          /\ commit_msg # None
    /\ \A i \in DOMAIN trace :
         trace[i] = "Write"
         => \A j \in (i + 1)..Len(trace) : trace[j] = "Handler"

C5_Witness ==
    /\ Done
    /\ Called("git commit")
    /\ commit_rc = 0
    /\ exit_code = 0
    /\ trace[Len(trace)] = "Write"

\* C6: with --suggest-groups and a too-large diff nothing is printed on
\* stdout, git commit is never invoked, and the group report on stderr ends
\* the run, also with --write and --force-write; with --suggest-groups and a
\* diff that is not too large the group suggester is not called and the run
\* goes on to the subject check.
C6_GroupSuggestTerminal ==
    /\ (opt.suggest_groups /\ Ran("ClassifySize") /\ is_too_large)
       => /\ out = <<>>
          /\ ~Called("git commit")
          /\ ~Ran("ValidateSubject")
          /\ Ran("GroupSuggest")
             => /\ Called("suggest_commit_groups")
                /\ Printed("[INFO] Large diff detected")
                /\ trace[Len(trace)] = "GroupSuggest"
                /\ Done
                /\ exit_code = 0
    /\ (opt.suggest_groups /\ Ran("ClassifySize") /\ ~is_too_large)
       => /\ ~Called("suggest_commit_groups")
          /\ Ran("GroupSuggest")
             => (pc = "ValidateSubject" \/ Ran("ValidateSubject"))

C6_Witness ==
    /\ Done
    /\ opt.suggest_groups
    /\ is_too_large
    /\ opt.write
    /\ opt.force_write
    /\ Called("suggest_commit_groups")
    /\ exit_code = 0

\* C7: the (subject, body) pair that Emit prints has been passed through
\* enforce_limits, on the generative path as on the offline path.
C7_EmittedPairIsLimited ==
    Ran("Emit")
    => /\ << subject, body >> = enforce_limits(gen)
       /\ out[1] = enforce_limits(gen)[1]

\* C8: an empty or whitespace-only diff ends the run with status 1 and
\* "No diff to summarize." on stderr, and no later stage runs: no risk
\* assessment, no context, no generation, no stdout output, no git commit.
C8_NoDiffStopsRun ==
    (raw_diff # None /\ Blank(raw_diff))
    => /\ Printed("No diff to summarize.")
       /\ \A i \in DOMAIN trace : trace[i] \in {"FetchDiff", "Handler"}
       /\ \A i \in DOMAIN calls : calls[i].fn \in {"git diff", "staged_diff"}
       /\ ctx_diff = None
       /\ risk_score = -1
       /\ out = <<>>
       /\ commit_msg = None
       /\ pc \in {"except", "done"}
       /\ Done => exit_code = 1

C8_Witness ==
    /\ Done
    /\ raw_diff # None
    /\ raw_diff # <<>>
    /\ Blank(raw_diff)
    /\ exit_code = 1
    /\ Printed("No diff to summarize.")

\* the PR block for a title and a summary, as text
PRText(title, summary) ==
    << "\nPR_TITLE: " >> \o title \o << "\nPR_SUMMARY:\n" >>
    \o (IF summary = None THEN << "None" >> ELSE summary)

\* C9 as stated: after Emit, stdout is the subject, then a blank line and
\* the body if there is a body, then the PR block whenever --pr was given.
C9_PRBlockWheneverRequested ==
    Ran("Emit")
    => LET hasBody == body # None /\ body # <<>>
           n == 1 + (IF hasBody THEN 1 ELSE 0) + (IF opt.pr THEN 1 ELSE 0)
       IN /\ Len(out) = n
          /\ out[1] = subject
          /\ hasBody => out[2] = << "\n" >> \o body
          /\ opt.pr => out[n] = PRText(pr_title, pr_sum)

\* C9 amended: after Emit, stdout is the subject, then a blank line and the
\* body if there is a body, then the PR block exactly when --pr was given
\* and the generator returned a non-empty PR title; the offline path returns
\* none, so it never prints the block.
C9_PRBlockWhenTitlePresent ==
    Ran("Emit")
    => LET hasBody == body # None /\ body # <<>>
           hasPR == opt.pr /\ pr_title # None /\ pr_title # <<>>
           n == 1 + (IF hasBody THEN 1 ELSE 0) + (IF hasPR THEN 1 ELSE 0)
       IN /\ Len(out) = n
          /\ out[1] = subject
          /\ hasBody => out[2] = << "\n" >> \o body
          /\ hasPR => out[n] = PRText(pr_title, pr_sum)
          /\ Called("offline") => Len(out) = 1

C9_Witness ==
    /\ Done
    /\ exit_code = 0
    /\ opt.pr
    /\ Called("offline")
    /\ Len(out) = 1
    /\ out[1] = subject

\* C10: a failed stage ends the run with status 1 and without a commit
\* written, whether a git command raised CalledProcessError, another
\* exception was raised or the subject was empty or blank; no stage runs
\* twice and summarize_diff is called at most once; a non-zero return of
\* git commit leaves the status at 0.
C10_FailureIsTerminal ==
    /\ (Done /\ exc.cls \in {"CalledProcessError", "Exception", "OSError"})
       => (exit_code = 1 /\ commit_rc = -1)
    /\ (Done /\ Ran("ValidateSubject")
             /\ (subject = None \/ Blank(subject)))
       => (exit_code = 1 /\ commit_rc = -1 /\ commit_msg = None
           /\ out = <<>>)
    /\ \A i, j \in DOMAIN trace : trace[i] = trace[j] => i = j
    /\ CountCalls("summarize_diff") <= 1
    /\ (Done /\ commit_rc = 1) => exit_code = 0

C10_Witness ==
    /\ Done
    /\ Ran("ValidateSubject")
    /\ subject # None
    /\ subject # <<>>
    /\ Blank(subject)
    /\ Called("summarize_diff")
    /\ opt.write
    /\ exit_code = 1

====
